---- MODULE Spec2Model ----
(***************************************************************************)
(* PySEBAL CSV input layer and batch drivers.                              *)
(*                                                                         *)
(*   run_timeseries.py   validate_csv_input, run_timeseries_processing,    *)
(*                       main                                              *)
(*   SEBAL/Run_CSV.py    CSVInputHandler (load_csv, get_row_count,         *)
(*                       get_value), SEBALcode_CSV_wrapper,                *)
(*                       run_timeseries_CSV, __main__                      *)
(*                                                                         *)
(* The external model pysebal_py3.SEBALcode is opaque: each call returns   *)
(* normally, returns a failure indicator, or raises.                       *)
(***************************************************************************)
EXTENDS Integers, Sequences, FiniteSets, TLC

\* ------------------------------------------------------------------ bounds

\* Largest number of data rows of an input table.
MaxRows == 5

\* start_row and end_row go down to -MaxNeg.
MaxNeg == 1

\* A requested end_row far beyond every table.
FarEnd == 10

\* Largest number of data rows of a table that lacks a required column.
SchemaRows == 2

\* ------------------------------------------------------------------ values

\* Python's None, pandas' NaN, and the content of a non-empty cell: cells are
\* kept symbolic, the cell of column c in data row r (1-based) is <<"v", c, r>>,
\* so that every cell of a table differs from every other one.
None == <<"None">>
NaN == <<"NaN">>
Unknown == <<"Unknown">>
Cell(c, r) == <<"v", c, r>>

\* pd.notna(value)
NotNa(value) == value # NaN

\* ------------------------------------------------------------------ tables

\* Columns the batch harness requires (validate_csv_input.required_columns).
required_columns ==
    <<"input_folder", "output_folder", "Image_Type", "DEM_fileName",
      "Name_Landsat_Image", "Date_Acquired">>

\* col_mapping of get_value, by letter position A..P.
col_mapping_general ==
    <<"Date_Acquired", "input_folder", "output_folder", "Image_Type",
      "DEM_fileName", "Name_Landsat_Image", "Landsat_nr", "Thermal_Bands",
      "tcoldmin", "tcoldmax", "ndvihot_low", "ndvihot_high", "ndvicold_low",
      "ndvicold_high", "Hot_Pixel_Constant", "Cold_Pixel_Constant">>

\* meteo_mapping of get_value, by letter position A..N.
meteo_mapping ==
    <<"Date_Acquired", "Temp_inst", "Temp_24", "RH_inst", "RH_24", "zx",
      "Wind_inst", "Wind_24", "Method_Radiation_24", "Rs_24", "Transm_24",
      "Method_Radiation_inst", "Rs_in_inst", "Transm_inst">>

\* The column letters a cell reference starts with; ord(letter) - ord('A') is
\* the position in this sequence minus one.
Letters ==
    <<"A", "B", "C", "D", "E", "F", "G", "H", "I", "J", "K", "L", "M", "N",
      "O", "P", "Q">>

Ord(letter) == CHOOSE k \in 1..Len(Letters) : Letters[k] = letter

\* Lower-case column letters a caller may pass, and col_letter.upper().
LowerLetters == [b |-> "B", q |-> "Q"]
Upper(letter) ==
    IF letter \in DOMAIN LowerLetters THEN LowerLetters[letter] ELSE letter

SeqRange(s) == {s[k] : k \in 1..Len(s)}

RECURSIVE Without(_, _)
\* The sequence s with every occurrence of x removed.
Without(s, x) ==
    IF s = <<>> THEN <<>>
    ELSE IF Head(s) = x THEN Without(Tail(s), x)
    ELSE <<Head(s)>> \o Without(Tail(s), x)

\* The header of a complete input file: the general columns followed by the
\* meteorological ones (Date_Acquired once).
FullHeader == col_mapping_general \o Tail(meteo_mapping)

\* The headers of the modelled input files: complete, or one column absent,
\* or the general columns only, alone or followed by one more column.
DroppableColumns == SeqRange(required_columns) \cup {"Temp_inst", "Landsat_nr"}
Headers ==
    {FullHeader, col_mapping_general, Append(col_mapping_general, "Temp_inst")}
    \cup {Without(FullHeader, c) : c \in DroppableColumns}

\* self.data = None, df = None: no DataFrame.
NoData == [is_none |-> TRUE, columns |-> <<>>, rows |-> <<>>]

\* A pandas DataFrame read from a file: its columns, in header order, and its
\* data rows; an empty source cell is read as NaN.
DataFrame(header, n, empty) ==
    [is_none |-> FALSE,
     columns |-> header,
     rows |-> [r \in 1..n |->
                 [c \in SeqRange(header) |->
                    IF <<r, c>> \in empty THEN NaN ELSE Cell(c, r)]]]

\* Columns whose cell may be empty in the modelled files.
EmptyColumns == {"input_folder", "Temp_inst", "Name_Landsat_Image"}

\* The sets of empty cells of the modelled files: none, or one cell.
EmptyCells(n) ==
    {{}} \cup {{<<r, c>>} : r \in {1, n} \cap (1..n), c \in EmptyColumns}

\* len(df)
RowCount(df) == Len(df.rows)

\* df.iloc[k] for a row index k that pandas accepts (-len <= k < len): a
\* negative index counts from the end.
ILoc(df, k) == IF k >= 0 THEN df.rows[k + 1] ELSE df.rows[RowCount(df) + k + 1]

\* df.iloc[k] raises IndexError
ILocRaises(df, k) == k >= RowCount(df) \/ k < 0 - RowCount(df)

\* ------------------------------------------------- CSVInputHandler.get_value

Sheets == {"General_Input", "Meteo_Input", "Landsat_Input", "Soil_Input"}

\* cell_ref[0]: a cell reference is a sequence of characters, the column
\* letter first.
ColLetter(cell_ref) == cell_ref[1]

\* An alias table that is the same for every sheet.
ColMappingNoMeteo(sheet_name) ==
    [k \in 1..Len(col_mapping_general) |-> col_mapping_general[k]]

\* col_mapping after col_mapping.update(meteo_mapping) for Meteo_Input: a
\* function from letter positions to column names.
ColMapping(sheet_name) ==
    IF sheet_name = "Meteo_Input"
    THEN [k \in 1..Len(col_mapping_general) |->
            IF k <= Len(meteo_mapping) THEN meteo_mapping[k]
            ELSE col_mapping_general[k]]
    ELSE [k \in 1..Len(col_mapping_general) |-> col_mapping_general[k]]

\* A row conversion that forgets the header row.
RowIdxOffByOne(row_index) == row_index - 1

\* row_idx = row_index - 2
RowIdx(row_index) == row_index - 2

\* 0 <= row_idx < len(self.data)
InBounds(row_idx, n) == 0 <= row_idx /\ row_idx < n

\* col_letter in col_mapping: the keys of the alias table are upper-case.
InMapping(col_letter, m) ==
    col_letter \in SeqRange(Letters) /\ Ord(col_letter) \in DOMAIN m

\* A resolution without the positional fallback.
ColNameNoFallback(data, sheet_name, col_letter) ==
    LET m == ColMapping(sheet_name)
    IN  IF InMapping(col_letter, m) THEN <<m[Ord(col_letter)]>> ELSE None

\* The column name get_value resolves the letter to, or None when the
\* positional fallback is out of range.
ColName(data, sheet_name, col_letter) ==
    LET m == ColMapping(sheet_name)
    IN  IF InMapping(col_letter, m) THEN <<m[Ord(col_letter)]>>
        ELSE LET col_index == Ord(Upper(col_letter)) - 1
             IN  IF col_index < Len(data.columns)
                 THEN <<data.columns[col_index + 1]>>
                 ELSE None

\* CSVInputHandler.get_value(sheet_name, cell_ref, row_index); data is
\* self.data, None when the file could not be loaded.
GetValue(data, sheet_name, cell_ref, row_index) ==
    IF data = NoData THEN None
    ELSE LET col == ColName(data, sheet_name, ColLetter(cell_ref))
         IN  IF col = None THEN None
             ELSE IF col[1] \notin SeqRange(data.columns) THEN None
             ELSE LET row_idx == RowIdx(row_index)
                  IN  IF InBounds(row_idx, RowCount(data))
                      THEN IF ILocRaises(data, row_idx)
                           THEN None   \* except: pass
                           ELSE LET value == ILoc(data, row_idx)[col[1]]
                                IN  IF NotNa(value) THEN value ELSE None
                      ELSE None

\* CSVInputHandler.get_row_count()
GetRowCount(data) == IF data = NoData THEN 0 ELSE RowCount(data)

\* ------------------------------------------------------------ driver code

\* Exceptions that derive from Exception: what the external model raises, the
\* IndexError of df.iloc, the ValueError of int() and float() and the OSError
\* of a file operation.
ExceptionSubclasses == {"ModelError", "IndexError", "ValueError", "OSError"}

\* A handler narrowed to "except IndexError".
CatchesIndexErrorOnly(exc) == exc = "IndexError"

\* except Exception as e
Catches(exc) == exc \in ExceptionSubclasses

Min(a, b) == IF a <= b THEN a ELSE b

\* The end row without "min(end_row, total_rows)".
EndRowUnclamped(has_end, requested, total_rows) ==
    IF has_end THEN requested ELSE total_rows

\* end_row after "if end_row is None: end_row = total_rows" and
\* "end_row = min(end_row, total_rows)"
ClampEndRow(has_end, requested, total_rows) ==
    IF has_end THEN Min(requested, total_rows) ELSE total_rows

\* excel_row = i + 2   (run_timeseries_processing)
ExcelRow(idx) == idx + 2

\* row_number = i + 1
RowNumber(idx) == idx + 1

\* The row SEBALcode_CSV_wrapper passes on: SEBALcode(row_number + 1, ...)
WrapperRow(row_number) == row_number + 1

\* The value the loop of run_timeseries_CSV passes to the wrapper: row_num.
WrapperArg(row_num) == row_num

\* missing_columns of validate_csv_input, as a set
MissingColumns(frame) == SeqRange(required_columns) \ SeqRange(frame.columns)

\* row_data.get(name, 'Unknown')
RowGet(row_data, name) ==
    IF name \in DOMAIN row_data THEN row_data[name] ELSE Unknown

\* An entry whose identifying fields are filled in for successes only.
ResultOutcomeDependent(run_number, l, status, error) ==
    [run_number |-> run_number,
     date |-> IF status = "Success" THEN l.date_acquired ELSE Unknown,
     image |-> IF status = "Success" THEN l.image_name ELSE Unknown,
     output_folder |-> IF status = "Success" THEN l.output_folder ELSE Unknown,
     status |-> status, error |-> error]

\* One entry of the results list.
Result(run_number, l, status, error) ==
    [run_number |-> run_number, date |-> l.date_acquired,
     image |-> l.image_name, output_folder |-> l.output_folder,
     status |-> status, error |-> error]

\* ------------------------------------------------------------------- state

VARIABLES
    driver,          \* the script run: "run_timeseries" or "Run_CSV"
    file,            \* the input file: [status, frame]
    args,            \* the command line: [form, start_row, has_end, end_row]
    pc,              \* position of the script
    df,              \* the DataFrame the driver holds (df / csv_handler.data)
    end_row,         \* the local end_row after defaulting and clamping
    i,               \* the loop variable (i / row_num), 0-based
    loc,             \* the loop's locals date_acquired, image_name, output_folder
    successful_runs,
    failed_runs,
    results,         \* run_timeseries_processing's results list
    printed,         \* the error and summary messages printed, in order
    ret,             \* what the driver function returned, "" before it returns
    escaped,         \* the exception that left the driver function, "" if none
    exit_code,       \* <<>> while running, <<code>> once the process ended
    calls,           \* history: display rows pysebal_py3.SEBALcode was called with
    attempted,       \* history: the loop indices whose body was entered
    raised_at,       \* history: the loop indices whose model call raised
    last,            \* history: what the latest loop body did: its index, the
                     \* row the model was called with, what the call did and
                     \* which counter the body incremented
    lookup,          \* the latest get_value call and its result
    runs_data,       \* process_timeseries_CSV's runs_data list
    params,          \* the meteorological locals of the latest SEBALcode_CSV call
    load_workbook    \* the attribute pysebal_py3.load_workbook

vars ==
    <<driver, file, args, pc, df, end_row, i, loc, successful_runs,
      failed_runs, results, printed, ret, escaped, exit_code, calls,
      attempted, raised_at, last, lookup, runs_data, params, load_workbook>>

csvVars == <<runs_data, params>>

Drivers == {"run_timeseries", "Run_CSV"}

\* What one call of pysebal_py3.SEBALcode does: it returns, returns a failure
\* indicator (False), or raises an exception derived from Exception.
ModelOutcomes == {"returned", "returned_failure", "raised"}

NoLocals == [date_acquired |-> Unknown, image_name |-> Unknown,
             output_folder |-> Unknown, bound |-> FALSE]

NoLookup == [sheet_name |-> "", cell_ref |-> <<>>, row_index |-> 0, value |-> None]

NoCall == [idx |-> 0, row |-> 0, outcome |-> "none", counted |-> "none"]

\* No SEBALcode_CSV call has bound a meteorological local.
NoParams == <<>>

StartRows == (0 - MaxNeg)..(MaxRows + 1)
EndRows == ((0 - MaxNeg)..(MaxRows + 1)) \cup {FarEnd}

\* The input files: missing, present but unreadable, or a table of up to
\* MaxRows rows; a table with a column absent has up to SchemaRows rows.
Files ==
    {[status |-> "missing", frame |-> NoData],
     [status |-> "unreadable", frame |-> NoData]}
    \cup {[status |-> "ok", frame |-> DataFrame(FullHeader, n, {})] :
            n \in 0..MaxRows}
    \cup {[status |-> "ok", frame |-> DataFrame(Without(FullHeader, c), n, {})] :
            c \in SeqRange(required_columns), n \in 0..SchemaRows}

\* The command lines: a file name with start_row and end_row defaulted or
\* given as integers ("ok"), no file name ("usage"), or a file name followed
\* by a row argument that is not an integer ("not_int").
ArgLists ==
    {[form |-> "ok", start_row |-> s, has_end |-> FALSE, end_row |-> 0] :
            s \in StartRows}
    \cup {[form |-> "ok", start_row |-> s, has_end |-> TRUE, end_row |-> e] :
            s \in StartRows, e \in EndRows}
    \cup {[form |-> f, start_row |-> 1, has_end |-> FALSE, end_row |-> 0] :
            f \in {"usage", "not_int"}}

\* What the module pysebal_py3 holds under the name load_workbook before a
\* script starts: no such attribute, or the function it imported. Only
\* Run_CSV.py touches the attribute, so the other scripts start from one state.
LoadWorkbookStates == {"absent", "original"}

\* Run_py3.py: the file named by inputCSV, which the script never reads.
InputCSV == [status |-> "ok", frame |-> DataFrame(FullHeader, MaxRows, {})]

\* Run_py3.py: the user inputs st and en, the first and last display row.
Py3Ranges ==
    {[form |-> "ok", start_row |-> st, has_end |-> TRUE, end_row |-> en] :
        st \in 2..(MaxRows + 1), en \in 1..(MaxRows + 1)}

\* The two command-line scripts start in their main part; Run_py3.py starts
\* at its loop, number = st.
Init ==
    /\ \/ /\ driver \in Drivers
          /\ file \in Files
          /\ args \in ArgLists
          /\ pc = "main"
          /\ i = 0
          /\ load_workbook \in IF driver = "Run_CSV" THEN LoadWorkbookStates
                               ELSE {"original"}
       \/ /\ driver = "Run_py3"
          /\ file = InputCSV
          /\ args \in Py3Ranges
          /\ pc = "loop_py3"
          /\ i = args.start_row
          /\ load_workbook = "original"
    /\ df = NoData
    /\ end_row = 0
    /\ loc = NoLocals
    /\ successful_runs = 0
    /\ failed_runs = 0
    /\ results = <<>>
    /\ printed = <<>>
    /\ ret = ""
    /\ escaped = ""
    /\ exit_code = <<>>
    /\ calls = <<>>
    /\ attempted = <<>>
    /\ raised_at = {}
    /\ last = NoCall
    /\ lookup = NoLookup
    /\ runs_data = <<>>
    /\ params = NoParams

loopVars == <<i, loc, successful_runs, failed_runs, results, calls,
              attempted, raised_at, last>>

\* ------------------------------------------------------- run_timeseries.py

\* main(): a file name must be given, the file must exist and the row
\* arguments must be integers; then run_timeseries_processing is called.
Main ==
    /\ pc = "main"
    /\ driver = "run_timeseries"
    /\ IF args.form = "usage"
       THEN /\ printed' = Append(printed, "usage")
            /\ exit_code' = <<1>>
            /\ pc' = "exited"
       ELSE IF file.status = "missing"
       THEN /\ printed' = Append(printed, "not_found")
            /\ exit_code' = <<1>>
            /\ pc' = "exited"
       ELSE IF args.form = "not_int"
       THEN /\ printed' = Append(printed, "not_int")
            /\ exit_code' = <<1>>
            /\ pc' = "exited"
       ELSE /\ pc' = "validate"
            /\ UNCHANGED <<printed, exit_code>>
    /\ UNCHANGED <<driver, file, args, df, end_row, ret, escaped, lookup>>
    /\ UNCHANGED loopVars
    /\ UNCHANGED csvVars
    /\ UNCHANGED load_workbook

\* validate_csv_input and the "if not is_valid: return False" of its caller.
ValidateCsvInput ==
    /\ pc = "validate"
    /\ IF file.status # "ok"
       THEN /\ printed' = Append(printed, "read_error")
            /\ ret' = "False"
            /\ pc' = "returned"
            /\ df' = df
       ELSE IF MissingColumns(file.frame) # {}
       THEN /\ printed' = Append(printed, "missing_columns")
            /\ ret' = "False"
            /\ pc' = "returned"
            /\ df' = df
       ELSE /\ df' = file.frame
            /\ pc' = "range"
            /\ UNCHANGED <<printed, ret>>
    /\ UNCHANGED <<driver, file, args, end_row, escaped, exit_code, lookup>>
    /\ UNCHANGED loopVars
    /\ UNCHANGED csvVars
    /\ UNCHANGED load_workbook

\* run_timeseries_processing: "Determine processing range" and "Track results".
DetermineRange ==
    /\ pc = "range"
    /\ end_row' = ClampEndRow(args.has_end, args.end_row, RowCount(df))
    /\ i' = args.start_row - 1
    /\ successful_runs' = 0
    /\ failed_runs' = 0
    /\ results' = <<>>
    /\ pc' = "loop"
    /\ UNCHANGED <<driver, file, args, df, loc, printed, ret, escaped,
                   exit_code, calls, attempted, raised_at, last, lookup>>
    /\ UNCHANGED csvVars
    /\ UNCHANGED load_workbook

\* An except branch that forgets "failed_runs += 1".
FailedUncounted(l, exc, row, outcome) ==
    /\ failed_runs' = failed_runs
    /\ results' = Append(results, Result(RowNumber(i), l, "Failed", exc))
    /\ loc' = l
    /\ last' = [idx |-> i, row |-> row, outcome |-> outcome,
                 counted |-> "failed"]
    /\ UNCHANGED successful_runs
    /\ i' = i + 1
    /\ UNCHANGED <<pc, escaped>>

\* An except branch that reports what the locals held before the iteration.
FailedStaleLocals(l, exc, row, outcome) ==
    /\ failed_runs' = failed_runs + 1
    /\ results' = Append(results, Result(RowNumber(i), loc, "Failed", exc))
    /\ loc' = l
    /\ last' = [idx |-> i, row |-> row, outcome |-> outcome,
                 counted |-> "failed"]
    /\ UNCHANGED successful_runs
    /\ i' = i + 1
    /\ UNCHANGED <<pc, escaped>>

\* The except branch of the loop body of run_timeseries_processing.
Failed(l, exc, row, outcome) ==
    /\ failed_runs' = failed_runs + 1
    /\ results' = Append(results, Result(RowNumber(i), l, "Failed", exc))
    /\ loc' = l
    /\ last' = [idx |-> i, row |-> row, outcome |-> outcome,
                 counted |-> "failed"]
    /\ UNCHANGED successful_runs
    /\ IF Catches(exc)
       THEN /\ i' = i + 1
            /\ UNCHANGED <<pc, escaped>>
       ELSE /\ escaped' = exc
            /\ pc' = "raised"
            /\ i' = i

\* One iteration of the loop of run_timeseries_processing.
ProcessRow ==
    /\ pc = "loop"
    /\ i < end_row
    /\ attempted' = Append(attempted, i)
    /\ IF ILocRaises(df, i)
       THEN \* row_data = df.iloc[i] raises IndexError: the locals keep
            \* what an earlier iteration bound
            /\ Failed(loc, "IndexError", 0, "none")
            /\ UNCHANGED <<calls, raised_at>>
       ELSE LET row_data == ILoc(df, i)
                l == [date_acquired |-> RowGet(row_data, "Date_Acquired"),
                      image_name |-> RowGet(row_data, "Name_Landsat_Image"),
                      output_folder |-> RowGet(row_data, "output_folder"),
                      bound |-> TRUE]
            IN  /\ calls' = Append(calls, ExcelRow(i))
                /\ \E outcome \in ModelOutcomes :
                     IF outcome = "raised"
                     THEN /\ Failed(l, "ModelError", ExcelRow(i), outcome)
                          /\ raised_at' = raised_at \cup {i}
                     ELSE /\ successful_runs' = successful_runs + 1
                          /\ results' =
                               Append(results, Result(RowNumber(i), l, "Success", ""))
                          /\ loc' = l
                          /\ last' = [idx |-> i, row |-> ExcelRow(i),
                                      outcome |-> outcome,
                                      counted |-> "success"]
                          /\ i' = i + 1
                          /\ UNCHANGED <<failed_runs, raised_at, pc, escaped>>
    /\ UNCHANGED <<driver, file, args, df, end_row, printed, ret, exit_code,
                   lookup>>
    /\ UNCHANGED csvVars
    /\ UNCHANGED load_workbook

\* After the loop: the summary and "return successful_runs > 0". The success
\* rate divides by successful_runs + failed_runs.
Summary ==
    /\ pc = "loop"
    /\ driver = "run_timeseries"
    /\ i >= end_row
    /\ IF successful_runs + failed_runs = 0
       THEN /\ escaped' = "ZeroDivisionError"
            /\ printed' = Append(printed, "summary_counts")
            /\ pc' = "raised"
            /\ ret' = ret
       ELSE /\ printed' = Append(Append(printed, "summary_counts"), "summary_results")
            /\ ret' = IF successful_runs > 0 THEN "True" ELSE "False"
            /\ pc' = "returned"
            /\ escaped' = escaped
    /\ UNCHANGED <<driver, file, args, df, end_row, exit_code, lookup>>
    /\ UNCHANGED loopVars
    /\ UNCHANGED csvVars
    /\ UNCHANGED load_workbook

\* main(): "if success: sys.exit(0) else: sys.exit(1)".
Exit ==
    /\ pc = "returned"
    /\ driver = "run_timeseries"
    /\ exit_code' = IF ret = "True" THEN <<0>> ELSE <<1>>
    /\ pc' = "exited"
    /\ UNCHANGED <<driver, file, args, df, end_row, printed, ret, escaped, lookup>>
    /\ UNCHANGED loopVars
    /\ UNCHANGED csvVars
    /\ UNCHANGED load_workbook

\* An exception no handler catches ends the interpreter with status 1.
Uncaught ==
    /\ pc = "raised"
    /\ exit_code' = <<1>>
    /\ pc' = "exited"
    /\ UNCHANGED <<driver, file, args, df, end_row, printed, ret, escaped, lookup>>
    /\ UNCHANGED loopVars
    /\ UNCHANGED csvVars
    /\ UNCHANGED load_workbook

\* -------------------------------------------------------- SEBAL/Run_CSV.py

\* The __main__ block: a file name must be given and the file must exist;
\* int() of a row argument that is no integer raises ValueError, which nothing
\* catches; then run_timeseries_CSV is called.
MainCSV ==
    /\ pc = "main"
    /\ driver = "Run_CSV"
    /\ IF args.form = "usage"
       THEN /\ printed' = Append(printed, "usage")
            /\ exit_code' = <<1>>
            /\ pc' = "exited"
            /\ escaped' = escaped
       ELSE IF file.status = "missing"
       THEN /\ printed' = Append(printed, "not_found")
            /\ exit_code' = <<1>>
            /\ pc' = "exited"
            /\ escaped' = escaped
       ELSE IF args.form = "not_int"
       THEN /\ escaped' = "ValueError"
            /\ pc' = "raised"
            /\ UNCHANGED <<printed, exit_code>>
       ELSE /\ pc' = "load"
            /\ UNCHANGED <<printed, exit_code, escaped>>
    /\ UNCHANGED <<driver, file, args, df, end_row, ret, lookup>>
    /\ UNCHANGED loopVars
    /\ UNCHANGED csvVars
    /\ UNCHANGED load_workbook

\* CSVInputHandler.load_csv: self.data, None when pd.read_csv raises.
LoadCsv(f) == IF f.status = "ok" THEN f.frame ELSE NoData

\* run_timeseries_CSV: csv_handler = CSVInputHandler(csv_file_path) and
\* "if csv_handler.data is None: return".
LoadTable ==
    /\ pc = "load"
    /\ df' = LoadCsv(file)
    /\ IF df' = NoData
       THEN /\ printed' = Append(printed, "load_error")
            /\ ret' = "None"
            /\ pc' = "returned"
       ELSE /\ pc' = "range_csv"
            /\ UNCHANGED <<printed, ret>>
    /\ UNCHANGED <<driver, file, args, end_row, escaped, exit_code, lookup>>
    /\ UNCHANGED loopVars
    /\ UNCHANGED csvVars
    /\ UNCHANGED load_workbook

\* run_timeseries_CSV: total_rows, end_row and the counters.
DetermineRangeCSV ==
    /\ pc = "range_csv"
    /\ end_row' = ClampEndRow(args.has_end, args.end_row, GetRowCount(df))
    /\ i' = args.start_row - 1
    /\ successful_runs' = 0
    /\ failed_runs' = 0
    /\ pc' = "loop_csv"
    /\ UNCHANGED <<driver, file, args, df, loc, results, printed, ret, escaped,
                   exit_code, calls, attempted, raised_at, last, lookup>>
    /\ UNCHANGED csvVars
    /\ UNCHANGED load_workbook

\* MockCell.__init__: self.row_index = 2
MockCellRowIndex == 2

\* The attribute SEBALcode_CSV_wrapper sets on every MockWorksheet:
\* sheet.row_index = row_number + 1. No method of the mock classes reads it.
SheetRowIndex(row_number) == row_number + 1

\* mock_wb[sheet_name][cell_ref].value: MockWorksheet.__getitem__ makes a new
\* MockCell, whose value property asks get_value for the cell's own row_index.
MockCellValue(data, sheet_name, cell_ref) ==
    GetValue(data, sheet_name, cell_ref, MockCellRowIndex)

\* hasattr(pysebal_py3, 'load_workbook')
HasAttr(attribute) == attribute # "absent"

\* original_load_workbook: None unless the module has the attribute.
OriginalLoadWorkbook(attribute) ==
    IF HasAttr(attribute) THEN <<attribute>> ELSE None

\* pysebal_py3.load_workbook when SEBALcode_CSV_wrapper has passed its
\* "finally": the mock installed for the call is replaced only
\* "if original_load_workbook".
AfterFinally(original) == IF original # None THEN original[1] ELSE "mock"

\* The cells the model reads for display row r, as sheet and column letter;
\* the cell reference is the letter followed by the row.
ModelReads == {<<"General_Input", "C">>, <<"Meteo_Input", "B">>}
ModelCellRef(letter, r) == <<letter, ToString(r)>>

\* One iteration of the loop of run_timeseries_CSV, SEBALcode_CSV_wrapper
\* included: the wrapper reads the file again, and the file may have become
\* unreadable since the driver read it; the model, once called, reads a cell
\* of its row through the mock workbook.
ProcessRowCSV ==
    /\ pc = "loop_csv"
    /\ i < end_row
    /\ attempted' = Append(attempted, i)
    /\ loc' = [date_acquired |-> GetValue(df, "General_Input", <<"A">>, i + 2),
               image_name |-> GetValue(df, "General_Input", <<"F">>, i + 2),
               output_folder |-> Unknown,
               bound |-> TRUE]
    /\ \E status \in {file.status, "unreadable"} :
         /\ file' = [file EXCEPT !.status = status]
         /\ IF LoadCsv(file') = NoData
            THEN \* "Error: Could not load CSV file", return False
                 /\ successful_runs' = successful_runs + 1
                 /\ last' = [idx |-> i, row |-> 0, outcome |-> "load_failed",
                              counted |-> "success"]
                 /\ i' = i + 1
                 /\ UNCHANGED <<failed_runs, calls, raised_at, pc, escaped,
                                lookup, load_workbook>>
            ELSE LET row == WrapperRow(WrapperArg(i))
                 IN  /\ calls' = Append(calls, row)
                     /\ load_workbook' =
                          AfterFinally(OriginalLoadWorkbook(load_workbook))
                     /\ \E read \in ModelReads :
                          lookup' =
                              [sheet_name |-> read[1],
                               cell_ref |-> ModelCellRef(read[2], row),
                               row_index |-> MockCellRowIndex,
                               value |-> MockCellValue(LoadCsv(file'), read[1],
                                                       ModelCellRef(read[2], row))]
                     /\ \E outcome \in ModelOutcomes :
                          /\ last' = [idx |-> i, row |-> row, outcome |-> outcome,
                                       counted |-> IF outcome = "raised"
                                                   THEN "failed" ELSE "success"]
                          /\ IF outcome = "raised"
                             THEN /\ failed_runs' = failed_runs + 1
                                  /\ raised_at' = raised_at \cup {i}
                                  /\ UNCHANGED successful_runs
                                  /\ IF Catches("ModelError")
                                     THEN /\ i' = i + 1
                                          /\ UNCHANGED <<pc, escaped>>
                                     ELSE /\ escaped' = "ModelError"
                                          /\ pc' = "raised"
                                          /\ i' = i
                             ELSE /\ successful_runs' = successful_runs + 1
                                  /\ i' = i + 1
                                  /\ UNCHANGED <<failed_runs, raised_at, pc, escaped>>
    /\ UNCHANGED <<driver, args, df, end_row, results, printed, ret, exit_code>>
    /\ UNCHANGED csvVars

\* After the loop of run_timeseries_CSV: the summary; the function returns None.
SummaryCSV ==
    /\ pc = "loop_csv"
    /\ i >= end_row
    /\ printed' = Append(printed, "summary_counts")
    /\ ret' = "None"
    /\ pc' = "returned"
    /\ UNCHANGED <<driver, file, args, df, end_row, escaped, exit_code, lookup>>
    /\ UNCHANGED loopVars
    /\ UNCHANGED csvVars
    /\ UNCHANGED load_workbook

\* The script ends after run_timeseries_CSV returns: exit status 0.
ExitCSV ==
    /\ pc = "returned"
    /\ driver = "Run_CSV"
    /\ exit_code' = <<0>>
    /\ pc' = "exited"
    /\ UNCHANGED <<driver, file, args, df, end_row, printed, ret, escaped, lookup>>
    /\ UNCHANGED loopVars
    /\ UNCHANGED csvVars
    /\ UNCHANGED load_workbook

\* ------------------------------------------------------- SEBAL/Run_py3.py

\* The display row a loop index of Run_py3.py stands for: the index itself.
Py3Row(number) == number

\* One iteration of "for number in range(st, en + 1)": the model is called
\* with the display row, and the bare "except:" catches whatever it raises.
CallRowPy3 ==
    /\ pc = "loop_py3"
    /\ i < args.end_row + 1
    /\ attempted' = Append(attempted, i)
    /\ calls' = Append(calls, Py3Row(i))
    /\ \E outcome \in ModelOutcomes :
         /\ last' = [idx |-> i - 2, row |-> Py3Row(i), outcome |-> outcome,
                      counted |-> "none"]
         /\ raised_at' = IF outcome = "raised" THEN raised_at \cup {i}
                         ELSE raised_at
    /\ i' = i + 1
    /\ UNCHANGED <<driver, file, args, pc, df, end_row, loc, successful_runs,
                   failed_runs, results, printed, ret, escaped, exit_code,
                   lookup>>
    /\ UNCHANGED csvVars
    /\ UNCHANGED load_workbook

\* The loop of Run_py3.py is over and the script ends.
EndPy3 ==
    /\ pc = "loop_py3"
    /\ i >= args.end_row + 1
    /\ exit_code' = <<0>>
    /\ pc' = "exited"
    /\ UNCHANGED <<driver, file, args, df, end_row, printed, ret, escaped, lookup>>
    /\ UNCHANGED loopVars
    /\ UNCHANGED csvVars
    /\ UNCHANGED load_workbook

Next ==
    \/ Main
    \/ ValidateCsvInput
    \/ DetermineRange
    \/ ProcessRow
    \/ Summary
    \/ Exit
    \/ Uncaught
    \/ MainCSV
    \/ LoadTable
    \/ DetermineRangeCSV
    \/ ProcessRowCSV
    \/ SummaryCSV
    \/ ExitCSV
    \/ CallRowPy3
    \/ EndPy3

Spec == Init /\ [][Next]_vars

\* ------------------------------------------- get_value as a pure function

\* Cell references: a column letter, upper or lower case, alone or followed
\* by a row digit.
CellRefs ==
    {<<Letters[k]>> : k \in 1..Len(Letters)}
    \cup {<<l>> : l \in DOMAIN LowerLetters}
    \cup {<<"B", "2">>}

\* Display rows asked for: from below the header to beyond the last row.
DisplayRows == (0 - MaxNeg)..(MaxRows + 3)

\* The tables get_value is applied to: no table, or a table of up to MaxRows
\* rows with at most one column absent and at most one empty cell.
Tables ==
    {NoData}
    \cup UNION {{DataFrame(h, n, e) : h \in Headers, e \in EmptyCells(n)} :
                 n \in 0..MaxRows}

InitLookup ==
    /\ driver = "Run_CSV"
    /\ file = [status |-> "ok", frame |-> NoData]
    /\ args = [form |-> "ok", start_row |-> 1, has_end |-> FALSE, end_row |-> 0]
    /\ pc = "get_value"
    /\ df \in Tables
    /\ end_row = 0
    /\ i = 0
    /\ loc = NoLocals
    /\ successful_runs = 0
    /\ failed_runs = 0
    /\ results = <<>>
    /\ printed = <<>>
    /\ ret = ""
    /\ escaped = ""
    /\ exit_code = <<>>
    /\ calls = <<>>
    /\ attempted = <<>>
    /\ raised_at = {}
    /\ last = NoCall
    /\ lookup = NoLookup
    /\ runs_data = <<>>
    /\ params = NoParams
    /\ load_workbook = "original"

\* One call csv_handler.get_value(sheet_name, cell_ref, row_index) on the table.
Lookup ==
    /\ pc = "get_value"
    /\ \E sheet_name \in Sheets, cell_ref \in CellRefs, row_index \in DisplayRows :
         lookup' = [sheet_name |-> sheet_name, cell_ref |-> cell_ref,
                    row_index |-> row_index,
                    value |-> GetValue(df, sheet_name, cell_ref, row_index)]
    /\ pc' = "value"
    /\ UNCHANGED <<driver, file, args, df, end_row, printed, ret, escaped,
                   exit_code>>
    /\ UNCHANGED loopVars
    /\ UNCHANGED csvVars
    /\ UNCHANGED load_workbook

NextLookup == Lookup

LookupSpec == InitLookup /\ [][NextLookup]_vars

\* ---------------------------------------------------- SEBAL/pysebal_csv.py

\* Largest number of rows of a table given to process_timeseries_CSV.
MaxRuns == 3

\* Number of distinct acquisition dates.
MaxDate == 2

\* Typed cell contents of the tables given to process_timeseries_CSV: a
\* number (in hundredths), a text that float() rejects, and a text that
\* float() parses (a number in a column pandas reads as text). Texts are
\* numbered in their lexicographic order; Str(0) is the empty string.
Num(k) == <<"num", k>>
Str(k) == <<"str", k>>
NumStr(k) == <<"numstr", k>>

\* str(nan)
NanStr == <<"nanstr">>

\* float(x) raises ValueError
FloatRaises(x) == x[1] = "str"

\* float(x) for an x it accepts: float(nan) is nan.
Float(x) == IF x[1] = "numstr" THEN Num(x[2]) ELSE x

\* int(x) raises ValueError: a text that is no number, and nan.
IntRaises(x) == x[1] \in {"str", "NaN"}

\* int(x) for an x it accepts: the fraction is cut off.
IntOf(x) == Num((x[2] \div 100) * 100)

\* str(x)
StrOf(x) ==
    IF x[1] = "num" THEN NumStr(x[2])
    ELSE IF x = NaN THEN NanStr
    ELSE x

\* a < b for two texts
StrLess(a, b) == a[2] < b[2]

\* The comparison of the filter raises TypeError: a float against a text.
CompareRaises(a, b) == a[1] \notin {"str", "numstr"} \/ b[1] \notin {"str", "numstr"}

\* csv_run_data.get(key, default)
Get(run_data, key, default) ==
    IF key \in DOMAIN run_data THEN run_data[key] ELSE default

\* The defaults of the meteorological fields of SEBALcode_CSV, in hundredths.
meteo_defaults ==
    [Temp_inst |-> 2500, Temp_24 |-> 2200, RH_inst |-> 6000, RH_24 |-> 5500,
     Wind_inst |-> 200, Wind_24 |-> 250, Rs_24 |-> 20000, Transm_24 |-> 75,
     Rs_in_inst |-> 60000, Transm_inst |-> 80]

\* The meteorological fields SEBALcode_CSV resolves before zx, in order.
meteo_fields ==
    <<"Temp_inst", "Temp_24", "RH_inst", "RH_24", "Wind_inst", "Wind_24">>

\* The Landsat parameters read with int(), and those read with float().
landsat_int_fields == {"Landsat_nr", "Thermal_Bands"}
landsat_float_fields ==
    {"tcoldmin", "tcoldmax", "ndvihot_low", "ndvihot_high", "ndvicold_low",
     "ndvicold_high", "Hot_Pixel_Constant", "Cold_Pixel_Constant"}

\* try: X = float(get(field, default)); X_kind_of_data = 0
\* except: X_name = str(get(field, '')); X_kind_of_data = 1
Resolve(run_data, field) ==
    LET raw == Get(run_data, field, Num(meteo_defaults[field]))
    IN  IF FloatRaises(raw)
        THEN [kind |-> 1, const |-> None,
              name |-> StrOf(Get(run_data, field, Str(0)))]
        ELSE [kind |-> 0, const |-> Float(raw), name |-> None]

\* The radiation field SEBALcode_CSV resolves for a method: 1 the radiation,
\* anything else the transmissivity.
RadiationField(method, rs, transm) == IF method = Num(100) THEN rs ELSE transm

\* SEBALcode_CSV(csv_run_data): what the call does and the meteorological
\* locals it has bound when it ends; os_error tells whether clearing or
\* creating the output folder raises OSError.
SEBALcode_CSV(run_data, os_error) ==
    LET image_type == Get(run_data, "Image_Type", Num(100))
        zx == Get(run_data, "zx", Num(1000))
        m24 == Get(run_data, "Method_Radiation_24", Num(100))
        minst == Get(run_data, "Method_Radiation_inst", Num(100))
        landsat_raises ==
            /\ IntOf(image_type) = Num(100)
            /\ \/ \E f \in landsat_int_fields : IntRaises(Get(run_data, f, Num(100)))
               \/ \E f \in landsat_float_fields : FloatRaises(Get(run_data, f, Num(100)))
        meteo == [f \in SeqRange(meteo_fields) |-> Resolve(run_data, f)]
        rad24 == RadiationField(IntOf(m24), "Rs_24", "Transm_24")
        radinst == RadiationField(IntOf(minst), "Rs_in_inst", "Transm_inst")
        all == [f \in SeqRange(meteo_fields) \cup {rad24, radinst} |->
                   Resolve(run_data, f)]
    IN  IF IntRaises(image_type)
        THEN [outcome |-> "raised", error |-> "ValueError", params |-> NoParams]
        ELSE IF os_error
        THEN [outcome |-> "raised", error |-> "OSError", params |-> NoParams]
        ELSE IF landsat_raises
        THEN [outcome |-> "raised", error |-> "ValueError", params |-> NoParams]
        ELSE IF FloatRaises(zx) \/ IntRaises(m24) \/ IntRaises(minst)
        THEN [outcome |-> "raised", error |-> "ValueError", params |-> meteo]
        ELSE [outcome |-> "returned", error |-> "", params |-> all]

\* read_csv_input: the rows of the file as dictionaries, row.to_dict() keeping
\* an empty cell as nan; the caller tests "is None" when pd.read_csv raised.
ReadCsvInput(f) == IF f.status = "ok" THEN f.frame.rows ELSE <<>>

\* The four kinds of content of a meteorological cell.
MeteoKinds == <<Num(700), Str(50), NaN, NumStr(300)>>

\* The columns whose cells are free text.
TextColumns ==
    <<"input_folder", "output_folder", "DEM_fileName", "Name_Landsat_Image">>

Position(seq, x) == CHOOSE k \in 1..Len(seq) : seq[k] = x

\* What makes SEBALcode_CSV raise on the first row of a table, or the filter
\* raise: an empty Image_Type, a zx that is no number, an empty Date_Acquired.
Defects == {"none", "Image_Type", "zx", "Date_Acquired"}

\* Row r of a table given to process_timeseries_CSV: its date, texts that
\* differ from row to row, and meteorological cells whose kinds rotate over
\* the fields and the rows from offset p.
CsvRow(header, r, date, p, method, defect) ==
    [c \in SeqRange(header) |->
        IF c = "Date_Acquired"
        THEN IF defect = "Date_Acquired" /\ r = 1 THEN NaN ELSE Str(date)
        ELSE IF c \in SeqRange(TextColumns)
        THEN Str(10 * r + Position(TextColumns, c))
        ELSE IF c = "Image_Type"
        THEN IF defect = "Image_Type" /\ r = 1 THEN NaN ELSE Num(100)
        ELSE IF c = "zx"
        THEN IF defect = "zx" /\ r = 1 THEN Str(9) ELSE Num(1000)
        ELSE IF c \in {"Method_Radiation_24", "Method_Radiation_inst"}
        THEN method
        ELSE IF c \in DOMAIN meteo_defaults
        THEN MeteoKinds[((p + r + Position(FullHeader, c)) % Len(MeteoKinds)) + 1]
        ELSE Num(100 * Position(FullHeader, c))]

\* The tables given to process_timeseries_CSV: all columns, or the general
\* columns only.
CsvTables ==
    UNION {{[is_none |-> FALSE, columns |-> h,
             rows |-> [r \in 1..n |-> CsvRow(h, r, dates[r], p, method, defect)]] :
               h \in {FullHeader, col_mapping_general},
               dates \in [1..n -> 1..MaxDate],
               p \in 0..(Len(MeteoKinds) - 1),
               method \in {Num(100), Num(200)},
               defect \in Defects} :
           n \in 0..MaxRuns}

CsvFiles ==
    {[status |-> "unreadable", frame |-> NoData]}
    \cup {[status |-> "ok", frame |-> t] : t \in CsvTables}

\* The date arguments of process_timeseries_CSV: None or a date text.
DateArgs ==
    {[form |-> "ok", start_date |-> sd, end_date |-> ed] :
        sd \in {None} \cup {Str(k) : k \in 1..MaxDate},
        ed \in {None} \cup {Str(k) : k \in 1..MaxDate}}

InitCsv ==
    /\ driver = "pysebal_csv"
    /\ file \in CsvFiles
    /\ args \in DateArgs
    /\ pc = "read_runs"
    /\ df = NoData
    /\ end_row = 0
    /\ i = 0
    /\ loc = NoLocals
    /\ successful_runs = 0
    /\ failed_runs = 0
    /\ results = <<>>
    /\ printed = <<>>
    /\ ret = ""
    /\ escaped = ""
    /\ exit_code = <<>>
    /\ calls = <<>>
    /\ attempted = <<>>
    /\ raised_at = {}
    /\ last = NoCall
    /\ lookup = NoLookup
    /\ runs_data = <<>>
    /\ params = NoParams
    /\ load_workbook = "original"

\* "if start_date", "if end_date": None and the empty text are false.
Truthy(x) == x # None /\ x # Str(0)

\* The row passes the filter: neither "continue" is taken.
Passes(run_data, start_date, end_date) ==
    LET date_acquired == Get(run_data, "Date_Acquired", Str(0))
    IN  /\ ~(Truthy(start_date) /\ StrLess(date_acquired, start_date))
        /\ ~(Truthy(end_date) /\ StrLess(end_date, date_acquired))

RECURSIVE FilterRuns(_, _, _)
\* filtered_runs: the rows that pass, in their order.
FilterRuns(runs, start_date, end_date) ==
    IF runs = <<>> THEN <<>>
    ELSE IF Passes(Head(runs), start_date, end_date)
    THEN <<Head(runs)>> \o FilterRuns(Tail(runs), start_date, end_date)
    ELSE FilterRuns(Tail(runs), start_date, end_date)

\* A comparison of the filter raises TypeError: a bound is given and the
\* date of some row is no text.
FilterRaises(runs, start_date, end_date) ==
    /\ Truthy(start_date) \/ Truthy(end_date)
    /\ \E k \in 1..Len(runs) :
         CompareRaises(Get(runs[k], "Date_Acquired", Str(0)),
                       IF Truthy(start_date) THEN start_date ELSE end_date)

\* process_timeseries_CSV: runs_data = read_csv_input(csv_file_path) and
\* "if runs_data is None: return None".
ReadRuns ==
    /\ pc = "read_runs"
    /\ IF file.status # "ok"
       THEN /\ printed' = Append(Append(printed, "read_error"), "load_error")
            /\ ret' = "None"
            /\ pc' = "returned"
            /\ UNCHANGED <<df, runs_data>>
       ELSE /\ df' = file.frame
            /\ runs_data' = ReadCsvInput(file)
            /\ pc' = "filter"
            /\ UNCHANGED <<printed, ret>>
    /\ UNCHANGED <<driver, file, args, end_row, escaped, exit_code, lookup,
                   params, load_workbook>>
    /\ UNCHANGED loopVars

\* process_timeseries_CSV: "Filter by date if specified".
FilterByDate ==
    /\ pc = "filter"
    /\ IF FilterRaises(runs_data, args.start_date, args.end_date)
       THEN /\ escaped' = "TypeError"
            /\ pc' = "raised"
            /\ UNCHANGED <<runs_data, i>>
       ELSE /\ runs_data' =
                 IF Truthy(args.start_date) \/ Truthy(args.end_date)
                 THEN FilterRuns(runs_data, args.start_date, args.end_date)
                 ELSE runs_data
            /\ i' = 1
            /\ pc' = "loop_runs"
            /\ UNCHANGED escaped
    /\ UNCHANGED <<driver, file, args, df, end_row, loc, successful_runs,
                   failed_runs, results, printed, ret, exit_code, calls,
                   attempted, raised_at, last, lookup, params, load_workbook>>

\* One entry of the results list of process_timeseries_CSV.
RunResult(run_number, run_data, success, error) ==
    [run_number |-> run_number,
     date |-> Get(run_data, "Date_Acquired", Str(0)),
     image |-> Get(run_data, "Name_Landsat_Image", Str(0)),
     success |-> success,
     error |-> error,
     output_folder |-> Get(run_data, "output_folder", Str(0))]

\* One iteration of "for i, run_data in enumerate(runs_data, 1)", the call of
\* SEBALcode_CSV included.
ProcessRun ==
    /\ pc = "loop_runs"
    /\ i <= Len(runs_data)
    /\ attempted' = Append(attempted, i)
    /\ calls' = Append(calls, i)
    /\ \E os_error \in BOOLEAN :
         LET run_data == runs_data[i]
             call == SEBALcode_CSV(run_data, os_error)
         IN  /\ params' = call.params
             /\ last' = [idx |-> i, row |-> 0, outcome |-> call.outcome,
                          counted |-> IF call.outcome = "raised"
                                      THEN "failed" ELSE "success"]
             /\ IF call.outcome = "raised"
                THEN /\ raised_at' = raised_at \cup {i}
                     /\ IF Catches(call.error)
                        THEN /\ results' =
                                  Append(results,
                                         RunResult(i, run_data, "False", call.error))
                             /\ i' = i + 1
                             /\ UNCHANGED <<pc, escaped>>
                        ELSE /\ escaped' = call.error
                             /\ pc' = "raised"
                             /\ UNCHANGED <<results, i>>
                ELSE /\ results' =
                          Append(results, RunResult(i, run_data, "True", ""))
                     /\ i' = i + 1
                     /\ UNCHANGED <<raised_at, pc, escaped>>
    /\ UNCHANGED <<driver, file, args, df, end_row, loc, successful_runs,
                   failed_runs, printed, ret, exit_code, lookup, runs_data,
                   load_workbook>>

\* After the loop of process_timeseries_CSV: the counts are printed and the
\* results list is returned.
SummaryRuns ==
    /\ pc = "loop_runs"
    /\ i > Len(runs_data)
    /\ printed' = Append(printed, "summary_counts")
    /\ ret' = "results"
    /\ pc' = "returned"
    /\ UNCHANGED <<driver, file, args, df, end_row, escaped, exit_code, lookup>>
    /\ UNCHANGED loopVars
    /\ UNCHANGED csvVars
    /\ UNCHANGED load_workbook

NextCsv ==
    \/ ReadRuns
    \/ FilterByDate
    \/ ProcessRun
    \/ SummaryRuns

CsvSpec == InitCsv /\ [][NextCsv]_vars

\* ---------------------------------------------- all batch drivers together

\* The three batch drivers of the repository, each started on its own inputs.
InitBatch == Init \/ InitCsv

NextBatch == Next \/ NextCsv

BatchSpec == InitBatch /\ [][NextBatch]_vars

\* ------------------------------------------------------------- properties

\* The loop indices range(a, b) visits, in order.
IndexSeq(a, b) == [k \in 1..(b - a) |-> a + k - 1]

\* The driver has loaded its table and fixed the range.
RangeFixed == pc \in {"loop", "loop_csv", "returned", "raised", "exited"} /\ df # NoData

\* The driver's loop is over.
LoopLeft == pc \in {"returned", "raised", "exited"} /\ df # NoData

\* The value a present cell of data row r, column c is handed out as.
CellOrNone(data, r, c) ==
    IF data.rows[r][c] = NaN THEN None ELSE data.rows[r][c]

\* C1: a raising model call never ends the batch: while the loop runs no
\* exception has left the driver and the indices attempted are all those up to
\* the loop variable, and once the loop is over every index of the range has
\* been attempted, one counter incremented per index; on a 5-row table run in
\* full with the model raising on row 3 only the counts are 4 successful, 1
\* failed, 5 in total.
C1_FailureIsolation ==
    /\ pc \in {"loop", "loop_csv"} =>
         /\ escaped = ""
         /\ attempted = IndexSeq(args.start_row - 1, i)
    /\ LoopLeft =>
         /\ attempted = IndexSeq(args.start_row - 1, end_row)
         /\ successful_runs + failed_runs = Len(attempted)
         /\ raised_at # {} => escaped = ""
         /\ driver = "run_timeseries" => Len(results) = Len(attempted)
    /\ (LoopLeft /\ RowCount(df) = 5 /\ args.start_row = 1 /\ end_row = 5
        /\ raised_at = {2}) =>
         /\ successful_runs = 4
         /\ failed_runs = 1
         /\ successful_runs + failed_runs = 5

\* C1 witness: run_timeseries_processing has finished a 5-row table on which
\* the model raised on row 3 only, and rows 4 and 5 were reported as successes.
C1_Witness ==
    /\ LoopLeft
    /\ driver = "run_timeseries"
    /\ RowCount(df) = 5
    /\ args.start_row = 1
    /\ raised_at = {2}
    /\ Len(results) = 5
    /\ results[3].status = "Failed"
    /\ results[4].status = "Success"
    /\ results[5].status = "Success"
    /\ successful_runs = 4
    /\ failed_runs = 1

\* C2: for start >= 1 the run numbers attempted are exactly start..min(end, N),
\* end being N when omitted; on a 5-row table with start = 2 and end = 10 the
\* end is clamped to 5 and exactly the 4 runs 2..5 are attempted.
C2_EndClamping ==
    LET N == RowCount(df)
        last_row == IF args.has_end THEN Min(args.end_row, N) ELSE N
    IN  /\ (RangeFixed /\ args.start_row >= 1) => end_row = last_row
        /\ (LoopLeft /\ args.start_row >= 1) =>
             /\ attempted = IndexSeq(args.start_row - 1, last_row)
             /\ {RowNumber(attempted[k]) : k \in 1..Len(attempted)}
                  = args.start_row..last_row
        /\ (LoopLeft /\ N = 5 /\ args.start_row = 2 /\ args.has_end
            /\ args.end_row = 10) =>
             /\ end_row = 5
             /\ attempted = <<1, 2, 3, 4>>

\* C2 witness: a 5-row table asked for with start = 2 and an end beyond the
\* table has been run to the end, in 4 runs.
C2_Witness ==
    /\ LoopLeft
    /\ RowCount(df) = 5
    /\ args.start_row = 2
    /\ args.has_end
    /\ args.end_row > 5
    /\ end_row = 5
    /\ Len(attempted) = 4
    /\ Len(calls) = 4

\* C3: whenever start > clamped end the driver calls the model zero times,
\* reports nothing and no exception leaves it, the summary included.
C3_EmptyRangeNoError ==
    (RangeFixed /\ args.start_row > end_row) =>
        /\ calls = <<>>
        /\ attempted = <<>>
        /\ results = <<>>
        /\ escaped = ""

\* C4: when the driver, run on a well-formed command line, could not load the
\* file, or a required column is absent from the header, the model is never
\* called and by the time the process ends the failure has been reported (the
\* absent column stated for requests with start >= 1).
C4_ValidationPrecedesRuns ==
    /\ (args.form = "ok" /\ pc \in {"returned", "exited"} /\ df = NoData
        /\ file.status # "ok") =>
         /\ calls = <<>>
         /\ pc = "exited" =>
              \E k \in 1..Len(printed) :
                  printed[k] \in {"not_found", "read_error", "load_error"}
    /\ (args.form = "ok" /\ args.start_row >= 1
        /\ ~file.frame.is_none /\ MissingColumns(file.frame) # {}) =>
         /\ calls = <<>>
         /\ pc = "exited" =>
              \E k \in 1..Len(printed) : printed[k] = "missing_columns"

\* C5: the process ends with status 0 whenever the batch over a loaded,
\* schema-valid table completed, however many runs failed, and with a nonzero
\* status when the file is missing or fails schema validation (the latter
\* stated for run_timeseries.py, the script that validates the schema); stated
\* for well-formed command lines with start >= 1.
C5_ExitCode ==
    (pc = "exited" /\ args.form = "ok" /\ args.start_row >= 1) =>
        /\ (df # NoData /\ MissingColumns(df) = {} /\ escaped = "")
             => exit_code = <<0>>
        /\ file.status = "missing" => exit_code # <<0>>
        /\ (driver = "run_timeseries" /\ ~file.frame.is_none
            /\ MissingColumns(file.frame) # {})
             => exit_code # <<0>>

\* C6: a row is counted as successful only if its model call neither raised
\* nor returned failure (the wrapper's False on an unreadable file included);
\* stated for requests with start >= 1.
C6_FailureCounted ==
    (args.start_row >= 1 /\ last.counted = "success") => last.outcome = "returned"

\* C7: every model call of a run with 0-based index idx passes display row
\* idx + 2, so the first data row is passed as row 2; stated for requests
\* with start >= 1.
C7_DisplayRow ==
    (args.start_row >= 1 /\ last.outcome \in ModelOutcomes) =>
        last.row = last.idx + 2

\* The mapping of test_column_mapping: sheet -> letter -> column name.
column_mapping ==
    [General_Input |->
        [B |-> "input_folder", C |-> "output_folder", D |-> "Image_Type",
         E |-> "DEM_fileName"],
     Landsat_Input |->
        [B |-> "Name_Landsat_Image", C |-> "Landsat_nr", D |-> "Thermal_Bands",
         E |-> "tcoldmin", F |-> "tcoldmax"],
     Meteo_Input |->
        [B |-> "Temp_inst", C |-> "Temp_24", D |-> "RH_inst", E |-> "RH_24",
         F |-> "zx", G |-> "Wind_inst", H |-> "Wind_24"]]

\* The value of column c in the data row that display row d names, as a
\* lookup hands it out: None when the table lacks the column or the cell is
\* empty.
ValueAt(data, c, d) ==
    IF c \in SeqRange(data.columns) THEN CellOrNone(data, d - 1, c) ELSE None

\* A lookup has been made on a loaded table.
LookedUp == pc = "value" /\ df # NoData

\* C8: on a table of N rows a known letter at display row d yields the cell of
\* data row d - 1 (internal index d - 2): the first row for d = 2, the last
\* for d = N + 1, and None for every d outside 2..N+1, negative indices
\* included.
C8_RowIndexConversion ==
    LookedUp =>
        LET N == RowCount(df)
            d == lookup.row_index
            col == ColName(df, lookup.sheet_name, ColLetter(lookup.cell_ref))
        IN  /\ (d < 2 \/ d > N + 1) => lookup.value = None
            /\ (2 <= d /\ d <= N + 1 /\ col # None) =>
                 lookup.value = ValueAt(df, col[1], d)

\* C8 witness: the last data row of a full table has been read through
\* display row N + 1.
C8_Witness ==
    /\ LookedUp
    /\ RowCount(df) = MaxRows
    /\ lookup.row_index = MaxRows + 1
    /\ lookup.sheet_name = "General_Input"
    /\ ColLetter(lookup.cell_ref) = "C"
    /\ lookup.value = Cell("output_folder", MaxRows)

C10_SheetScopedAliases ==
    (LookedUp /\ 2 <= lookup.row_index /\ lookup.row_index <= RowCount(df) + 1
     /\ lookup.sheet_name \in DOMAIN column_mapping
     /\ ColLetter(lookup.cell_ref) \in DOMAIN column_mapping[lookup.sheet_name]) =>
        lookup.value =
            ValueAt(df,
                    column_mapping[lookup.sheet_name][ColLetter(lookup.cell_ref)],
                    lookup.row_index)

\* The letters the alias table of a sheet has an entry for.
AliasKeys(sheet_name) == {Letters[k] : k \in DOMAIN ColMapping(sheet_name)}

\* C11: a letter that is no key of the sheet's alias table is resolved by
\* position: with p its letter index (A = 0), the lookup yields None when p is
\* at or beyond the number of columns, and otherwise what the p-th column
\* holds at the display row asked for (None outside the table).
C11_PositionalFallback ==
    (LookedUp /\ ColLetter(lookup.cell_ref) \notin AliasKeys(lookup.sheet_name)) =>
        LET p == Ord(Upper(ColLetter(lookup.cell_ref))) - 1
            d == lookup.row_index
        IN  /\ p >= Len(df.columns) => lookup.value = None
            /\ (p < Len(df.columns) /\ 2 <= d /\ d <= RowCount(df) + 1) =>
                 lookup.value = ValueAt(df, df.columns[p + 1], d)
            /\ (p < Len(df.columns) /\ (d < 2 \/ d > RowCount(df) + 1)) =>
                 lookup.value = None

\* C11 witness: letter Q, which no alias table lists, has been looked up on a
\* table whose 17th column is Temp_inst and has yielded that column's cell,
\* while on the 16 general columns alone the same lookup yields None.
C11_Witness ==
    /\ LookedUp
    /\ ColLetter(lookup.cell_ref) = "Q"
    /\ df.columns = Append(col_mapping_general, "Temp_inst")
    /\ RowCount(df) >= 1
    /\ lookup.row_index = 2
    /\ lookup.value = Cell("Temp_inst", 1)
    /\ GetValue(DataFrame(col_mapping_general, 1, {}), lookup.sheet_name,
                lookup.cell_ref, 2) = None

\* C12: every record a loader hands out represents an empty source cell by
\* None: the dictionaries read_csv_input returns, and what get_value returns
\* for the cell at its display row under every sheet and letter that resolve
\* to the cell's column.
C12_AbsentNormalized ==
    (pc = "filter") =>
        \A k \in 1..Len(runs_data) : \A c \in DOMAIN runs_data[k] :
            file.frame.rows[k][c] = NaN =>
                /\ runs_data[k][c] = None
                /\ \A sheet_name \in Sheets, l \in SeqRange(Letters) :
                     ColName(df, sheet_name, l) = <<c>> =>
                         GetValue(df, sheet_name, <<l>>, k + 1) = None

\* The number a cell that parses as a number stands for.
NumberOf(raw) == Num(raw[2])

\* C13: whenever SEBALcode_CSV has resolved a meteorological field of a
\* record, the field has exactly one representation: a cell holding a number
\* gives kind 0 with that number as constant, a cell holding any other text
\* gives kind 1 with the text as map name, and a missing column or an empty
\* cell gives kind 0 with the field's default as constant; a call that
\* returns has resolved the six temperature, humidity and wind fields and
\* one field of each radiation pair.
C13_ConstantOrMap ==
    (pc = "loop_runs" /\ last.outcome \in {"returned", "raised"}) =>
        LET run_data == runs_data[last.idx]
        IN  /\ \A f \in DOMAIN params :
                 LET absent == f \notin DOMAIN run_data \/ run_data[f] = NaN
                 IN  /\ (params[f].const = None) # (params[f].name = None)
                     /\ absent =>
                          /\ params[f].kind = 0
                          /\ params[f].const = Num(meteo_defaults[f])
                     /\ (~absent /\ run_data[f][1] \in {"num", "numstr"}) =>
                          /\ params[f].kind = 0
                          /\ params[f].const = NumberOf(run_data[f])
                     /\ (~absent /\ run_data[f][1] = "str") =>
                          /\ params[f].kind = 1
                          /\ params[f].name = run_data[f]
            /\ last.outcome = "returned" =>
                 /\ SeqRange(meteo_fields) \subseteq DOMAIN params
                 /\ Cardinality(DOMAIN params \cap {"Rs_24", "Transm_24"}) = 1
                 /\ Cardinality(DOMAIN params \cap {"Rs_in_inst", "Transm_inst"}) = 1

\* C14: the outcome recorded for a run whose model invocation raised carries
\* the date, the image name and the output folder of the row the run read,
\* none of them "Unknown": in run_timeseries_processing for every index whose
\* model call raised, in process_timeseries_CSV for every failed entry.
C14_IdentityOnFailure ==
    /\ driver = "run_timeseries" =>
         \A k \in 1..Len(results) :
             attempted[k] \in raised_at =>
                 LET row_data == ILoc(df, attempted[k])
                 IN  /\ results[k].status = "Failed"
                     /\ results[k].date = row_data["Date_Acquired"]
                     /\ results[k].image = row_data["Name_Landsat_Image"]
                     /\ results[k].output_folder = row_data["output_folder"]
                     /\ Unknown \notin {results[k].date, results[k].image,
                                       results[k].output_folder}
    /\ driver = "pysebal_csv" =>
         \A k \in 1..Len(results) :
             results[k].success = "False" =>
                 /\ results[k].date = runs_data[k]["Date_Acquired"]
                 /\ results[k].image = runs_data[k]["Name_Landsat_Image"]
                 /\ results[k].output_folder = runs_data[k]["output_folder"]

\* C14 witness: run_timeseries_processing has recorded a failure for row 2
\* after a success on row 1, and the failure names row 2's date, image and
\* output folder.
C14_Witness ==
    /\ driver = "run_timeseries"
    /\ args.start_row = 1
    /\ Len(results) >= 2
    /\ raised_at = {1}
    /\ results[1].status = "Success"
    /\ results[2].status = "Failed"
    /\ results[2].date = Cell("Date_Acquired", 2)
    /\ results[2].image = Cell("Name_Landsat_Image", 2)
    /\ results[2].output_folder = Cell("output_folder", 2)

\* The identifying fields the k-th outcome of a run over table data from
\* start_row must carry, whatever the model does: those of the row the k-th
\* index reads, or, when that index reads no row, those of the latest
\* earlier index of the range that read one ("Unknown" when there is none).
ReportIdentity(data, start_row, k) ==
    LET idx(j) == start_row - 1 + (j - 1)
        readable == {j \in 1..k : ~ILocRaises(data, idx(j))}
    IN  IF readable = {}
        THEN [date |-> Unknown, image |-> Unknown, output_folder |-> Unknown]
        ELSE LET j == CHOOSE m \in readable : \A n \in readable : n <= m
                 row_data == ILoc(data, idx(j))
             IN  [date |-> row_data["Date_Acquired"],
                  image |-> row_data["Name_Landsat_Image"],
                  output_folder |-> row_data["output_folder"]]

\* C15: the structure of the report of run_timeseries_processing is a
\* function of the table and the range alone, so two runs on the same table
\* and range agree on it whatever the model does in each: the k-th outcome
\* has run number start + k - 1 and the identifying fields ReportIdentity
\* gives, and a finished run has one outcome per index of the range.
C15_ReportDeterminism ==
    (driver = "run_timeseries" /\ RangeFixed) =>
        /\ \A k \in 1..Len(results) :
             /\ results[k].run_number = args.start_row + k - 1
             /\ results[k].date = ReportIdentity(df, args.start_row, k).date
             /\ results[k].image = ReportIdentity(df, args.start_row, k).image
             /\ results[k].output_folder =
                  ReportIdentity(df, args.start_row, k).output_folder
        /\ LoopLeft =>
             Len(results) =
                 IF end_row > args.start_row - 1
                 THEN end_row - (args.start_row - 1) ELSE 0

\* C15 witness: a finished run over rows 2..4 of a table in which the model
\* raised on row 3 only: the report lists runs 2, 3, 4 with the dates of
\* those rows, the same as a run in which the model never raises would list.
C15_Witness ==
    /\ driver = "run_timeseries"
    /\ LoopLeft
    /\ args.start_row = 2
    /\ raised_at = {2}
    /\ Len(results) = 3
    /\ [k \in 1..3 |-> results[k].run_number] = <<2, 3, 4>>
    /\ [k \in 1..3 |-> results[k].date] =
         <<Cell("Date_Acquired", 2), Cell("Date_Acquired", 3),
           Cell("Date_Acquired", 4)>>
    /\ [k \in 1..3 |-> results[k].status] = <<"Success", "Failed", "Success">>

\* C16: a batch over a loaded table always ends in the driver's completed
\* state: once the loop is left the driver has returned, no exception has
\* left it, every index of the range has been attempted and the summary
\* with the success and failure counts has been printed.
C16_AlwaysSummary ==
    (LoopLeft /\ driver \in Drivers) =>
        /\ escaped = ""
        /\ ret # ""
        /\ attempted = IndexSeq(args.start_row - 1, end_row)
        /\ \E k \in 1..Len(printed) : printed[k] = "summary_counts"
        /\ successful_runs + failed_runs = Len(attempted)

\* The display row a driver passes to the model for a loop index.
DisplayRowOf(idx) == IF driver = "Run_py3" THEN idx ELSE idx + 2

\* C17: in run_timeseries_processing and in the loop of Run_py3.py the model
\* is invoked for the indices of the range in strictly ascending order, one
\* invocation per index: the indices attempted so far are consecutive, the
\* k-th invocation is that of the k-th index, and once the loop is over every
\* index of the range has been invoked; the k-th outcome of the results list
\* belongs to the k-th index.
C17_SequentialAscending ==
    (driver \in {"run_timeseries", "Run_py3"}
     /\ pc \in {"loop", "loop_py3", "returned", "raised", "exited"}) =>
        /\ \A k \in 1..(Len(attempted) - 1) : attempted[k + 1] = attempted[k] + 1
        /\ \A k \in 1..(Len(calls) - 1) : calls[k] < calls[k + 1]
        /\ Len(calls) = Len(attempted)
        /\ \A k \in 1..Len(calls) : calls[k] = DisplayRowOf(attempted[k])
        /\ driver = "run_timeseries" =>
             /\ Len(results) = Len(attempted)
             /\ \A k \in 1..Len(results) :
                  results[k].run_number = attempted[k] + 1

\* The number of entries of the results list with the given status.
CountStatus(status) ==
    Cardinality({k \in 1..Len(results) : results[k].status = status})

\* C18, the counts: in run_timeseries_processing, from the start of the loop
\* on, successful_runs + failed_runs, the length of results and the number of
\* indices attempted are equal; the k-th outcome is that of the k-th index
\* attempted, its status is Success or Failed, and the two counters count the
\* outcomes of each status.
AggregateCounts ==
    (driver = "run_timeseries" /\ RangeFixed) =>
        /\ successful_runs + failed_runs = Len(results)
        /\ Len(results) = Len(attempted)
        /\ \A k \in 1..Len(results) :
             /\ results[k].run_number = attempted[k] + 1
             /\ results[k].status \in {"Success", "Failed"}
        /\ successful_runs = CountStatus("Success")
        /\ failed_runs = CountStatus("Failed")

\* C18, the list: a step of run_timeseries_processing leaves the outcomes
\* already in results as they are and appends at most one.
AppendOnly ==
    driver = "run_timeseries" =>
        /\ Len(results') \in {Len(results), Len(results) + 1}
        /\ SubSeq(results', 1, Len(results)) = results

\* C18: the aggregate-count invariant holds after every loop iteration and
\* outcomes once appended are never changed or removed.
C18_AggregateCounts == []AggregateCounts /\ [][AppendOnly]_vars

\* C18 witness: three iterations have been made, two counted as successes and
\* one as a failure, and the results list has the three outcomes in order.
C18_Witness ==
    /\ driver = "run_timeseries"
    /\ pc = "loop"
    /\ Len(attempted) = 3
    /\ successful_runs = 2
    /\ failed_runs = 1
    /\ Len(results) = 3
    /\ results[2].status = "Failed"

\* C19: when SEBALcode_CSV_wrapper has driven the model for a run with
\* display row r (r >= 2), the cell value the model read through the mock
\* workbook is the table's value at display row r in the column the sheet and
\* letter name, None when r is beyond the table.
C19_ShimRowContext ==
    (driver = "Run_CSV" /\ last.outcome \in ModelOutcomes /\ last.row >= 2) =>
        LET r == last.row
            col == ColName(df, lookup.sheet_name, ColLetter(lookup.cell_ref))
        IN  lookup.value =
                IF r <= RowCount(df) + 1 THEN ValueAt(df, col[1], r) ELSE None

\* The record's date lies within the bounds given, both inclusive.
WithinDates(run_data, start_date, end_date) ==
    LET d == run_data["Date_Acquired"]
    IN  /\ d # NaN
        /\ start_date # None => start_date[2] <= d[2]
        /\ end_date # None => d[2] <= end_date[2]

\* C20: when process_timeseries_CSV is given a start date or an end date, the
\* records it goes on to process are exactly those of the table whose date
\* lies within the bounds given, in table order; the k-th entry of results is
\* that of the k-th such record with run_number k, and the list returned has
\* one entry per such record.
C20_DateFilter ==
    (driver = "pysebal_csv" /\ pc \in {"loop_runs", "returned", "raised"}
     /\ df # NoData /\ (args.start_date # None \/ args.end_date # None)) =>
        LET Within(run_data) ==
                WithinDates(run_data, args.start_date, args.end_date)
            selected == SelectSeq(df.rows, Within)
        IN  /\ escaped = ""
            /\ runs_data = selected
            /\ Len(results) <= Len(selected)
            /\ \A k \in 1..Len(results) :
                 /\ results[k].run_number = k
                 /\ results[k].date = selected[k]["Date_Acquired"]
                 /\ results[k].image = selected[k]["Name_Landsat_Image"]
            /\ pc = "returned" => Len(results) = Len(selected)

\* C21: every step of a script, the calls of SEBALcode_CSV_wrapper included
\* whether the model returned or raised, leaves pysebal_py3.load_workbook as
\* it was before the step: the original function if there was one, no
\* attribute if there was none; stated for requests with start >= 1.
C21_PatchIsTemporary ==
    [][args.start_row >= 1 => load_workbook' = load_workbook]_vars

\* The run numbers of the indices attempted so far lie in 1..N, N the number
\* of data rows of the driver's table; no index attempted is negative.
RunNumbersInTable ==
    \A k \in 1..Len(attempted) :
        /\ attempted[k] >= 0
        /\ RowNumber(attempted[k]) \in 1..RowCount(df)

\* The identifying fields of every outcome of run_timeseries_processing are
\* the cells of the data row its run number names.
OutcomesOfOwnRow ==
    \A k \in 1..Len(results) :
        LET row_data == df.rows[results[k].run_number]
        IN  /\ results[k].date = RowGet(row_data, "Date_Acquired")
            /\ results[k].image = RowGet(row_data, "Name_Landsat_Image")
            /\ results[k].output_folder = RowGet(row_data, "output_folder")

\* C22: for every request (start, end) every run that run_timeseries_processing
\* or run_timeseries_CSV attempts has a 1-based run number in 1..N, its index
\* is never negative, and an outcome of run_timeseries_processing carries the
\* cells of exactly the row of its run number.
C22_IndicesInsideTable ==
    (driver \in {"run_timeseries", "Run_CSV"} /\ RangeFixed) =>
        /\ RunNumbersInTable
        /\ driver = "run_timeseries" => OutcomesOfOwnRow


====
